---- MODULE Spec2Model ----
(***************************************************************************)
(* Model of soop.py (Satellite Operation Outdoor Planning).                *)
(*                                                                         *)
(* Four parts of the program are modelled, each with its own               *)
(* specification over the shared variables:                                *)
(*   SpecBest  - find_best_time, the window optimizer                      *)
(*   SpecLoc   - maiden2latlon / f_10_24, the locator decoder              *)
(*   SpecTrack - sat_track, the rise/set pairing loop                      *)
(*   SpecPlan  - soop, the forecast loop over days and satellites          *)
(*                                                                         *)
(* Times are POSIX timestamps in whole seconds, durations are minutes,     *)
(* list indices are 0-based as in the source (element i of a Python list   *)
(* is element i+1 of the TLA+ sequence).                                   *)
(***************************************************************************)
EXTENDS Integers, Sequences, FiniteSets, TLC

VARIABLES
    pc,         \* position of the modelled function / program
    op_h,       \* find_best_time: operation period in hours
    ev_sorted,  \* find_best_time: the event list passed in
    res,        \* find_best_time: the returned tuple (itf, itl, start, ttd)
    loctr,      \* maiden2latlon: the locator, a sequence of characters
    pairs,      \* maiden2latlon: the interleaved value pairs
    i_pair,     \* maiden2latlon: number of pairs the loop has processed
    lon,        \* maiden2latlon: longitude accumulator, a rational <<n, d>>
    lat,        \* maiden2latlon: latitude accumulator, a rational <<n, d>>
    step,       \* maiden2latlon: value of f_10_24 in the latest iteration
    ret,        \* maiden2latlon: the returned pair, in micro-degrees
    t_event,    \* sat_track: the predictor's events, pairs <<time, event>>
    k_ev,       \* sat_track: number of events the loop has processed
    t_aos,      \* sat_track: <<>> for None, else <<time of the last rise>>
    ev_list,    \* sat_track: the list being built
    fc_days,    \* soop: number of days to forecast
    fc_day,     \* soop: the day being forecast
    n_sat,      \* soop: number of satellites tracked so far on this day
    time_list,  \* soop: events collected on this day
    tls_sorted, \* soop: time_list sorted
    out,        \* soop: the day's summary line ("", "window", "No event")
    marked,     \* soop: indices listed as inside the window
    called,     \* soop: find_best_time was called on this day
    reads       \* soop: number of reads of res on this day

bestVars == <<op_h, ev_sorted, res>>
locVars == <<loctr, pairs, i_pair, lon, lat, step, ret>>
trackVars == <<t_event, k_ev, t_aos, ev_list>>
planVars == <<fc_days, fc_day, n_sat, time_list, tls_sorted, out, marked,
              called, reads>>
vars == <<pc, bestVars, locVars, trackVars, planVars>>

----------------------------------------------------------------------------
(* Bounds of the model *)

MaxEvents == 3      \* longest event list given to find_best_time
MaxOpH == 2         \* largest operation period in hours
MaxChunks == 6      \* longest locator input, in chunks of the input alphabet
MaxStream == 5      \* longest event stream given to the sat_track loop
MaxDays == 2        \* largest number of forecast days
MaxPlanStream == 2  \* longest event stream per satellite in a forecast run

----------------------------------------------------------------------------
(* Program constants *)

MIN_DUR == 3

\* the satellites of my_sats that are modelled, in dictionary order
MySats == <<"RS-44", "AO=7">>

\* satellite.name wherever a single satellite is tracked
SatName == MySats[1]

----------------------------------------------------------------------------
(* Generic helpers *)

Max(a, b) == IF a > b THEN a ELSE b

Range(s) == {s[n] : n \in 1..Len(s)}

Abs(a) == IF a < 0 THEN 0 - a ELSE a

RECURSIVE GCD(_, _)
GCD(a, b) == IF b = 0 THEN a ELSE GCD(b, a % b)

RECURSIVE IntPow(_, _)
IntPow(b, e) == IF e = 0 THEN 1 ELSE b * IntPow(b, e - 1)

(* Exact rationals <<numerator, denominator>>, denominator > 0, in lowest  *)
(* terms; they stand for the float values of the source.                   *)
Rat(n, d) == LET g == GCD(Abs(n), d) IN <<n \div g, d \div g>>

RatAdd(a, b) ==
    LET l == (a[2] \div GCD(a[2], b[2])) * b[2]
    IN Rat(a[1] * (l \div a[2]) + b[1] * (l \div b[2]), l)

RatMul(a, b) ==
    LET g1 == GCD(Abs(a[1]), b[2])
        g2 == GCD(Abs(b[1]), a[2])
    IN Rat((a[1] \div g1) * (b[1] \div g2), (a[2] \div g2) * (b[2] \div g1))

RatInt(k) == <<k, 1>>

RatNeg(a) == <<0 - a[1], a[2]>>

RatSub(a, b) == RatAdd(a, RatNeg(b))

RatAbs(a) == <<Abs(a[1]), a[2]>>

RatLess(a, b) == RatSub(a, b)[1] < 0

\* b ** e  for an integer base and a possibly negative integer exponent
RatPow(b, e) == IF e >= 0 THEN <<IntPow(b, e), 1>> ELSE <<1, IntPow(b, 0 - e)>>

----------------------------------------------------------------------------
(* find_best_time                                                          *)

NoResult == <<>>

\* ev_sorted[itf] on an empty list
IndexError == <<"IndexError">>

\* datetime.timedelta(hours=op_h), in seconds
delta_t(h) == h * 60 * 60

\* mutant: window end inclusive
InWindowLe(t, tmax) == t <= tmax

\* the test  fromtimestamp(ev_sorted[j_sat][0]) < tmax
InWindow(t, tmax) == t < tmax

\* mutant: a later anchor with an equal total replaces the earlier one
ImprovesGe(tti, ttd) == tti >= ttd

\* the test  tti > ttd
Improves(tti, ttd) == tti > ttd

\* mutant: last index one too far
LastIndexOff(itf, jtl) == itf + jtl

\* itl = itf + jtl - 1
LastIndex(itf, jtl) == itf + jtl - 1

\* mutant: the running best is overwritten by the latest total
NewTotalLast(ttd, tti) == tti

\* ttd = max(ttd, tti)
NewTotal(ttd, tti) == Max(ttd, tti)

\* inner loop  for j_sat in range(i_sat, m_sats)  -> <<tti, jtl>>
RECURSIVE InnerLoop(_, _, _, _, _)
InnerLoop(ev, j_sat, tmax, tti, jtl) ==
    IF j_sat >= Len(ev) THEN <<tti, jtl>>
    ELSE IF InWindow(ev[j_sat + 1][1], tmax)
         THEN InnerLoop(ev, j_sat + 1, tmax, tti + ev[j_sat + 1][2], jtl + 1)
         ELSE InnerLoop(ev, j_sat + 1, tmax, tti, jtl)

\* outer loop  for i_sat in range(0, m_sats)  and the return statement
RECURSIVE OuterLoop(_, _, _, _, _, _)
OuterLoop(h, ev, i_sat, ttd, itf, itl) ==
    IF i_sat >= Len(ev)
    THEN IF itf >= Len(ev) THEN IndexError
         ELSE <<itf, itl, ev[itf + 1][1], ttd>>
    ELSE LET tmax == ev[i_sat + 1][1] + delta_t(h)
             inner == InnerLoop(ev, i_sat, tmax, 0, 0)
             tti  == inner[1]
             jtl  == inner[2]
             upd  == Improves(tti, ttd)
         IN OuterLoop(h, ev, i_sat + 1, NewTotal(ttd, tti),
                      IF upd THEN i_sat ELSE itf,
                      IF upd THEN LastIndex(i_sat, jtl) ELSE itl)

find_best_time(h, ev) == OuterLoop(h, ev, 0, 0, 0, 0)

----------------------------------------------------------------------------
(* maiden2latlon and f_10_24                                               *)

UPPER == <<"A", "B", "C", "D", "E", "F", "G", "H", "I", "J", "K", "L", "M",
           "N", "O", "P", "Q", "R", "S", "T", "U", "V", "W", "X", "Y", "Z">>

LOWER == <<"a", "b", "c", "d", "e", "f", "g", "h", "i", "j", "k", "l", "m",
           "n", "o", "p", "q", "r", "s", "t", "u", "v", "w", "x", "y", "z">>

DIGITS == <<"0", "1", "2", "3", "4", "5", "6", "7", "8", "9">>

IsLetter(c) == c \in Range(UPPER) \cup Range(LOWER)

\* ord(c.upper()) - ord("A")
LetterVal(c) == (CHOOSE n \in 1..26 : UPPER[n] = c \/ LOWER[n] = c) - 1

\* \d
IsDigit(c) == c \in Range(DIGITS)

\* int(c) for a digit character
DigitVal(c) == (CHOOSE n \in 1..10 : DIGITS[n] = c) - 1

\* [A-Ra-r]
IsAR(c) == IsLetter(c) /\ LetterVal(c) <= 17

\* [A-Xa-x]
IsAX(c) == IsLetter(c) /\ LetterVal(c) <= 23

\* results of maiden2latlon: (None, None), a raised ValueError, or the
\* pair (lat, lon) in micro-degrees
None2 == [kind |-> "None", lat |-> 0, lon |-> 0]

Raised == [kind |-> "ValueError", lat |-> 0, lon |-> 0]

LatLon(lt, ln) == [kind |-> "value", lat |-> lt, lon |-> ln]

NoReturn == [kind |-> "unset", lat |-> 0, lon |-> 0]

\* the optional tail  (([A-Za-z]{2})(\d\d)?){0,2}  matched greedily from
\* position p (1-based) with n repetitions left; yields the end of the match
RECURSIVE MatchTail(_, _, _)
MatchTail(s, p, n) ==
    IF n > 0 /\ p + 1 <= Len(s) /\ IsLetter(s[p]) /\ IsLetter(s[p + 1])
    THEN IF p + 3 <= Len(s) /\ IsDigit(s[p + 2]) /\ IsDigit(s[p + 3])
         THEN MatchTail(s, p + 4, n - 1)
         ELSE MatchTail(s, p + 2, n - 1)
    ELSE p - 1

\* re.match(r"([A-Ra-r]{2}\d\d)(([A-Za-z]{2})(\d\d)?){0,2}", s):
\* number of characters matched from the start of s, or -1 for no match
re_match(s) ==
    IF /\ Len(s) >= 4
       /\ IsAR(s[1]) /\ IsAR(s[2])
       /\ IsDigit(s[3]) /\ IsDigit(s[4])
    THEN MatchTail(s, 5, 2)
    ELSE 0 - 1

\* re.findall(r'([A-Xa-x]{2})', s) from position p, already converted to
\* the value pairs of  vals
RECURSIVE FindLets(_, _)
FindLets(s, p) ==
    IF p + 1 > Len(s) THEN <<>>
    ELSE IF IsAX(s[p]) /\ IsAX(s[p + 1])
         THEN <<<<LetterVal(s[p]), LetterVal(s[p + 1])>>>> \o FindLets(s, p + 2)
         ELSE FindLets(s, p + 1)

\* re.findall(r'(\d)(\d)', s) from position p, converted to integer pairs
RECURSIVE FindNums(_, _)
FindNums(s, p) ==
    IF p + 1 > Len(s) THEN <<>>
    ELSE IF IsDigit(s[p]) /\ IsDigit(s[p + 1])
         THEN <<<<DigitVal(s[p]), DigitVal(s[p + 1])>>>> \o FindNums(s, p + 2)
         ELSE FindNums(s, p + 1)

\* pairs = [tuple] * n;  pairs[::2] = vals;  pairs[1::2] = nums
\* an extended slice assignment of the wrong size raises ValueError
Interleave(vals, nums) ==
    LET n == Len(vals) + Len(nums)
    IN IF Len(vals) # (n + 1) \div 2 \/ Len(nums) # n \div 2
       THEN [err |-> TRUE, pairs |-> <<>>]
       ELSE [err |-> FALSE,
             pairs |-> [k \in 1..n |-> IF k % 2 = 1 THEN vals[(k + 1) \div 2]
                                                     ELSE nums[k \div 2]]]

\* int(n / d) for d > 0: truncation toward zero
IntTrunc(n, d) == IF n >= 0 THEN n \div d ELSE 0 - ((0 - n) \div d)

\* mutant: floor instead of int() in both exponents
f_10_24_floor(j) ==
    RatMul(RatPow(10, 1 - ((j + 1) \div 2)), RatPow(24, (0 - j) \div 2))

\* 10 ** (1 - int((j + 1) / 2)) * 24 ** int(-j / 2)
f_10_24(j) ==
    RatMul(RatPow(10, 1 - IntTrunc(j + 1, 2)), RatPow(24, IntTrunc(0 - j, 2)))

\* one iteration of  for i, (x_1, x_2) in enumerate(pairs)  -> <<lon, lat>>
LoopBody(i, x, ln, lt) ==
    <<RatAdd(ln, RatMul(f_10_24(i), RatInt(x[1]))),
      RatAdd(lt, RatMul(f_10_24(i), RatInt(x[2])))>>

RECURSIVE LoopFrom(_, _, _, _)
LoopFrom(p, i, ln, lt) ==
    IF i >= Len(p) THEN <<ln, lt>>
    ELSE LET a == LoopBody(i, p[i + 1], ln, lt)
         IN LoopFrom(p, i + 1, a[1], a[2])

\* lon *= 2; lon += f_10_24(len(pairs)-1) / 2; lat += f_10_24(...) / 2
Centre(n, ln, lt) ==
    LET half == RatMul(f_10_24(n - 1), <<1, 2>>)
    IN <<RatAdd(RatMul(ln, RatInt(2)), half), RatAdd(lt, half)>>

\* six decimal digits of r / d by long division -> <<digits, remainder>>
RECURSIVE LongDiv(_, _, _, _)
LongDiv(r, d, k, acc) ==
    IF k = 0 THEN <<acc, r>>
    ELSE LongDiv((r * 10) % d, d, k - 1, acc * 10 + ((r * 10) \div d))

\* round(x, 6), as an integer number of micro-degrees (ties to even)
Round6(a) ==
    LET m  == Abs(a[1])
        ld == LongDiv(m % a[2], a[2], 6, 0)
        lo == (m \div a[2]) * 1000000 + ld[1]
        up == 2 * ld[2] > a[2] \/ (2 * ld[2] = a[2] /\ lo % 2 = 1)
        v  == IF up THEN lo + 1 ELSE lo
    IN IF a[1] < 0 THEN 0 - v ELSE v

\* the whole function: None2, "ValueError" or <<lat, lon>> in micro-degrees
maiden2latlon(s) ==
    IF re_match(s) < 0 THEN None2
    ELSE LET p == Interleave(FindLets(s, 1), FindNums(s, 1))
         IN IF p.err THEN Raised
            ELSE LET a == LoopFrom(p.pairs, 0, RatInt(0 - 90), RatInt(0 - 90))
                     c == Centre(Len(p.pairs), a[1], a[2])
                 IN LatLon(Round6(c[2]), Round6(c[1]))

----------------------------------------------------------------------------
(* Values of the variables of the parts a specification does not exercise  *)

NoRat == <<>>

BestIdle ==
    /\ op_h = 1
    /\ ev_sorted = <<>>
    /\ res = NoResult

LocIdle ==
    /\ loctr = <<>>
    /\ pairs = <<>>
    /\ i_pair = 0
    /\ lon = NoRat
    /\ lat = NoRat
    /\ step = NoRat
    /\ ret = NoReturn

TrackIdle ==
    /\ t_event = <<>>
    /\ k_ev = 0
    /\ t_aos = <<>>
    /\ ev_list = <<>>

PlanIdle ==
    /\ fc_days = 0
    /\ fc_day = 0
    /\ n_sat = 0
    /\ time_list = <<>>
    /\ tls_sorted = <<>>
    /\ out = ""
    /\ marked = {}
    /\ called = FALSE
    /\ reads = 0

----------------------------------------------------------------------------
(* SpecLoc: maiden2latlon applied to every bounded input string            *)

\* the pieces the input strings are built from
Chunks == {<<"O", "J">>, <<"1", "1">>, <<"x", "i">>, <<"Z", "Z">>, <<"A">>}

RECURSIVE Strings(_)
Strings(n) ==
    IF n = 0 THEN {<<>>}
    ELSE LET shorter == Strings(n - 1)
         IN shorter \cup {s \o c : s \in shorter, c \in Chunks}

InitLoc ==
    /\ pc = "start"
    /\ loctr \in Strings(MaxChunks)
    /\ pairs = <<>>
    /\ i_pair = 0
    /\ lon = NoRat
    /\ lat = NoRat
    /\ step = NoRat
    /\ ret = NoReturn
    /\ BestIdle
    /\ TrackIdle
    /\ PlanIdle

\* lines 79-82: initialise the accumulators, check validity of the input
Validate ==
    /\ pc = "start"
    /\ lon' = RatInt(0 - 90)
    /\ lat' = RatInt(0 - 90)
    /\ IF re_match(loctr) < 0
       THEN ret' = None2 /\ pc' = "done"
       ELSE ret' = ret /\ pc' = "parse"
    /\ UNCHANGED <<loctr, pairs, i_pair, step, bestVars, trackVars, planVars>>

\* lines 83-90: collect the letter and number pairs and interleave them
Parse ==
    /\ pc = "parse"
    /\ LET p == Interleave(FindLets(loctr, 1), FindNums(loctr, 1))
       IN IF p.err
          THEN pc' = "raised" /\ pairs' = pairs /\ ret' = Raised
          ELSE pc' = "loop" /\ pairs' = p.pairs /\ ret' = ret
    /\ UNCHANGED <<loctr, i_pair, lon, lat, step, bestVars, trackVars, planVars>>

\* lines 91-93: one iteration of the accumulation loop
LoopStep ==
    /\ pc = "loop"
    /\ i_pair < Len(pairs)
    /\ LET a == LoopBody(i_pair, pairs[i_pair + 1], lon, lat)
       IN lon' = a[1] /\ lat' = a[2]
    /\ step' = f_10_24(i_pair)
    /\ i_pair' = i_pair + 1
    /\ UNCHANGED <<pc, loctr, pairs, ret, bestVars, trackVars, planVars>>

\* lines 94-97: move to the centre of the field, round and return
Finish ==
    /\ pc = "loop"
    /\ i_pair = Len(pairs)
    /\ LET c == Centre(Len(pairs), lon, lat)
       IN /\ lon' = c[1]
          /\ lat' = c[2]
          /\ ret' = LatLon(Round6(c[2]), Round6(c[1]))
    /\ pc' = "done"
    /\ UNCHANGED <<loctr, pairs, i_pair, step, bestVars, trackVars, planVars>>

NextLoc == Validate \/ Parse \/ LoopStep \/ Finish

SpecLoc == InitLoc /\ [][NextLoc]_vars

----------------------------------------------------------------------------
(* sat_track                                                               *)

\* event codes of the predictor
AOS == 0
CULM == 1
LOS == 2

\* mutant: a pass of exactly MIN_DUR minutes is kept
LongEnoughGe(t_dur) == t_dur >= MIN_DUR

\* the test  t_dur > MIN_DUR
LongEnough(t_dur) == t_dur > MIN_DUR

\* one iteration of  for t_li, event in zip(t_event, events)
\* -> <<t_aos, ev_list>>
TrackBody(e, aos, evl, name) ==
    LET time_sc == e[1]
        aos1 == IF e[2] = AOS THEN <<time_sc>> ELSE aos
    IN IF e[2] = LOS /\ aos1 # <<>>
       THEN LET t_dur == IntTrunc(time_sc - aos1[1], 60)
            IN IF LongEnough(t_dur)
               THEN <<aos1, Append(evl, <<aos1[1], t_dur, name>>)>>
               ELSE <<aos1, evl>>
       ELSE <<aos1, evl>>

RECURSIVE TrackFrom(_, _, _, _, _)
TrackFrom(st, n, aos, evl, name) ==
    IF n >= Len(st) THEN evl
    ELSE LET a == TrackBody(st[n + 1], aos, evl, name)
         IN TrackFrom(st, n + 1, a[1], a[2], name)

\* the list sat_track returns for the predictor's events st
sat_track(st, name) == TrackFrom(st, 0, <<>>, <<>>, name)

\* gaps between consecutive events of one satellite, seconds
TrackGaps == {120, 239, 240}

\* gaps between consecutive events of one satellite in a forecast run
PlanGaps == {120, 240}

\* event streams of a satellite that is above (up) or below the minimum
\* elevation at time t0: it rises only when below, culminates and sets only
\* when above; at most n events follow, G seconds apart
RECURSIVE Streams(_, _, _, _)
Streams(G, t0, up, n) ==
    IF n = 0 THEN {<<>>}
    ELSE {<<>>} \cup
         UNION {IF up
                THEN {<<<<t0 + g, CULM>>>> \o r : r \in Streams(G, t0 + g, TRUE, n - 1)}
                     \cup
                     {<<<<t0 + g, LOS>>>> \o r : r \in Streams(G, t0 + g, FALSE, n - 1)}
                ELSE {<<<<t0 + g, AOS>>>> \o r : r \in Streams(G, t0 + g, TRUE, n - 1)}
                : g \in G}

AllStreams(G, t0, n) == Streams(G, t0, TRUE, n) \cup Streams(G, t0, FALSE, n)

----------------------------------------------------------------------------
(* SpecTrack: the sat_track loop over every bounded event stream           *)

InitTrack ==
    /\ pc = "track"
    /\ t_event \in AllStreams(TrackGaps, 0, MaxStream)
    /\ k_ev = 0
    /\ t_aos = <<>>
    /\ ev_list = <<>>
    /\ BestIdle
    /\ LocIdle
    /\ PlanIdle

\* lines 121-129: one iteration of the loop over the events
TrackStep ==
    /\ pc = "track"
    /\ k_ev < Len(t_event)
    /\ LET a == TrackBody(t_event[k_ev + 1], t_aos, ev_list, SatName)
       IN t_aos' = a[1] /\ ev_list' = a[2]
    /\ k_ev' = k_ev + 1
    /\ UNCHANGED <<pc, t_event, bestVars, locVars, planVars>>

\* line 130: return ev_list
TrackReturn ==
    /\ pc = "track"
    /\ k_ev = Len(t_event)
    /\ pc' = "done"
    /\ UNCHANGED <<trackVars, bestVars, locVars, planVars>>

NextTrack == TrackStep \/ TrackReturn

SpecTrack == InitTrack /\ [][NextTrack]_vars

----------------------------------------------------------------------------
(* soop: the forecast loop                                                 *)


\* position of a satellite name in the order of Python string comparison
NameRank(name) == CASE name = "AO=7" -> 1 [] name = "RS-44" -> 2

\* Python list comparison  a < b  of two events [t_aos, t_dur, name]
EventLess(a, b) ==
    \/ a[1] < b[1]
    \/ a[1] = b[1] /\ a[2] < b[2]
    \/ a[1] = b[1] /\ a[2] = b[2] /\ NameRank(a[3]) < NameRank(b[3])

\* insert e into the sorted list l after every element not greater than it
RECURSIVE Insert(_, _)
Insert(l, e) ==
    IF l = <<>> THEN <<e>>
    ELSE IF EventLess(e, Head(l)) THEN <<e>> \o l
         ELSE <<Head(l)>> \o Insert(Tail(l), e)

\* mutant: the list is used as collected
sorted_not(l) == l

\* sorted(time_list, key=get_key): stable, ascending
RECURSIVE sorted(_)
sorted(l) ==
    IF l = <<>> THEN <<>>
    ELSE Insert(sorted(SubSeq(l, 1, Len(l) - 1)), l[Len(l)])

\* start of the day's window: earliest_start_of_op_utc + fc_day days
DayStart(d) == d * 24 * 60 * 60

\* state when the loop over the days is entered (line 328); res is unbound
InitPlan ==
    /\ pc = "day"
    /\ fc_days \in 1..MaxDays
    /\ op_h \in 1..MaxOpH
    /\ fc_day = 0
    /\ n_sat = 0
    /\ time_list = <<>>
    /\ tls_sorted = <<>>
    /\ out = ""
    /\ marked = {}
    /\ called = FALSE
    /\ reads = 0
    /\ ev_sorted = <<>>
    /\ res = NoResult
    /\ LocIdle
    /\ TrackIdle

\* lines 328-333: next iteration of the loop over the days, or its end
StartDay ==
    /\ pc = "day"
    /\ IF fc_day < fc_days
       THEN /\ pc' = "sats"
            /\ time_list' = <<>>
            /\ n_sat' = 0
            /\ out' = ""
            /\ marked' = {}
            /\ called' = FALSE
            /\ reads' = 0
            /\ UNCHANGED <<tls_sorted>>
       ELSE /\ pc' = "end"
            /\ UNCHANGED <<time_list, n_sat, out, marked, called, reads,
                           tls_sorted>>
    /\ UNCHANGED <<fc_days, fc_day, bestVars, locVars, trackVars>>

\* lines 334-338: track one satellite and extend time_list by its events
TrackSat ==
    /\ pc = "sats"
    /\ n_sat < Len(MySats)
    /\ \E evnts \in {sat_track(st, MySats[n_sat + 1]) :
                          st \in AllStreams(PlanGaps, DayStart(fc_day),
                                           MaxPlanStream)} :
           time_list' = time_list \o evnts
    /\ n_sat' = n_sat + 1
    /\ UNCHANGED <<pc, fc_days, fc_day, tls_sorted, out, marked, called, reads,
                   bestVars, locVars, trackVars>>

\* lines 340-353: sort, then find and print the optimal start time or
\* print "No event"
Optimize ==
    /\ pc = "sats"
    /\ n_sat = Len(MySats)
    /\ LET tls == sorted(time_list)
       IN /\ tls_sorted' = tls
          /\ IF tls # <<>>
             THEN LET r == find_best_time(op_h, tls)
                  IN /\ ev_sorted' = tls
                     /\ called' = TRUE
                     /\ res' = r
                     /\ IF Len(r) = 4
                        THEN pc' = "list" /\ out' = "window" /\ reads' = 4
                        ELSE pc' = "raised" /\ out' = out /\ reads' = reads
             ELSE /\ out' = "No event"
                  /\ pc' = "list"
                  /\ UNCHANGED <<ev_sorted, called, res, reads>>
    /\ UNCHANGED <<op_h, fc_days, fc_day, n_sat, time_list, marked,
                   locVars, trackVars>>

\* lines 357-367: with one forecast day, list every event and mark those
\* inside the window; reading the unbound  res  raises UnboundLocalError
ListEvents ==
    /\ pc = "list"
    /\ IF fc_days = 1 /\ tls_sorted # <<>>
       THEN IF res = NoResult
            THEN pc' = "raised" /\ UNCHANGED <<marked, reads, fc_day>>
            ELSE /\ marked' = {n \in 0..(Len(tls_sorted) - 1) :
                                   res[1] <= n /\ n <= res[2]}
                 /\ reads' = reads + 2 * Len(tls_sorted)
                 /\ fc_day' = fc_day + 1
                 /\ pc' = "day"
       ELSE /\ fc_day' = fc_day + 1
            /\ pc' = "day"
            /\ UNCHANGED <<marked, reads>>
    /\ UNCHANGED <<fc_days, n_sat, time_list, tls_sorted, out, called,
                   bestVars, locVars, trackVars>>

NextPlan == StartDay \/ TrackSat \/ Optimize \/ ListEvents

SpecPlan == InitPlan /\ [][NextPlan]_vars

----------------------------------------------------------------------------
(* SpecBest: find_best_time applied to every bounded sorted event list     *)

\* gaps between consecutive start times, seconds (0, 30, 35 and 60 minutes)
Gaps == {0, 30 * 60, 35 * 60, 60 * 60}

\* pass durations in minutes, all above MIN_DUR
Durs == {5, 10, 20}

\* the event list whose n-th start time is the sum of the first n gaps
RECURSIVE FromGaps(_, _, _)
FromGaps(g, d, n) ==
    IF n = 0 THEN <<>>
    ELSE LET pre == FromGaps(g, d, n - 1)
             t0  == IF n = 1 THEN 0 ELSE pre[n - 1][1]
         IN Append(pre, <<t0 + g[n], d[n], SatName>>)

EventLists ==
    UNION {{FromGaps(g, d, n) : g \in [1..n -> Gaps], d \in [1..n -> Durs]}
           : n \in 1..MaxEvents}

InitBest ==
    /\ pc = "call"
    /\ LocIdle
    /\ TrackIdle
    /\ PlanIdle
    /\ op_h \in 1..MaxOpH
    /\ ev_sorted \in EventLists
    /\ res = NoResult

CallBest ==
    /\ pc = "call"
    /\ res' = find_best_time(op_h, ev_sorted)
    /\ pc' = "done"
    /\ UNCHANGED <<op_h, ev_sorted, locVars, trackVars, planVars>>

NextBest == CallBest

SpecBest == InitBest /\ [][NextBest]_vars

----------------------------------------------------------------------------
(* Properties of find_best_time (checked under SpecBest)                   *)

\* indices of the events j >= i that start before start(i) + op_h hours
Anchored(h, ev, i) ==
    {j \in i..(Len(ev) - 1) : ev[j + 1][1] < ev[i + 1][1] + h * 3600}

RECURSIVE SumDur(_, _)
SumDur(ev, J) ==
    IF J = {} THEN 0
    ELSE LET j == CHOOSE x \in J : TRUE
         IN ev[j + 1][2] + SumDur(ev, J \ {j})

\* S(i) of the specification
AnchorSum(h, ev, i) == SumDur(ev, Anchored(h, ev, i))

BestSum(h, ev) ==
    CHOOSE m \in {AnchorSum(h, ev, i) : i \in 0..(Len(ev) - 1)} :
        \A i \in 0..(Len(ev) - 1) : AnchorSum(h, ev, i) <= m

ExampleEvents ==
    <<<<0, 10, SatName>>, <<30 * 60, 20, SatName>>, <<65 * 60, 5, SatName>>>>

BestDone == pc = "done" /\ Len(res) = 4

\* C1: the returned total is the maximum over all anchor indices i of S(i),
\* the sum of the durations of the events j >= i starting strictly before
\* start(i) + op_h hours; for (0,10),(30,20),(65,5) minutes and a one hour
\* span the result is firstIndex 0, lastIndex 1, total 30.
C1_TotalIsMaxAnchorSum ==
    pc = "done" =>
        /\ Len(res) = 4
        /\ res[4] = BestSum(op_h, ev_sorted)
        /\ (ev_sorted = ExampleEvents /\ op_h = 1) =>
               (res[1] = 0 /\ res[2] = 1 /\ res[4] = 30)

C1_Witness ==
    /\ BestDone
    /\ ev_sorted = ExampleEvents
    /\ op_h = 1
    /\ res = <<0, 1, 0, 30>>

\* C2: when several anchors attain the maximal total, firstIndex is the
\* lowest of them.
C2_LowestAnchorOnTie ==
    BestDone =>
        /\ AnchorSum(op_h, ev_sorted, res[1]) = BestSum(op_h, ev_sorted)
        /\ \A i \in 0..(Len(ev_sorted) - 1) :
               AnchorSum(op_h, ev_sorted, i) = BestSum(op_h, ev_sorted)
                   => res[1] <= i

\* two disjoint windows with the same maximal total; the earlier is returned
C2_Witness ==
    /\ BestDone
    /\ \E i \in 0..(Len(ev_sorted) - 1) :
           /\ i > res[2]
           /\ AnchorSum(op_h, ev_sorted, i) = res[4]
           /\ Anchored(op_h, ev_sorted, res[1]) \cap Anchored(op_h, ev_sorted, i) = {}

\* instants at which a window may be placed: every 150 seconds from
\* MaxOpH hours before the first possible event to after the last one
Instants == {150 * n : n \in (0 - 24 * MaxOpH)..(24 * (MaxEvents + 1))}

\* events (by index) starting in [t, t + op_h hours)
InWindowAt(h, ev, t) ==
    {j \in 0..(Len(ev) - 1) : t <= ev[j + 1][1] /\ ev[j + 1][1] < t + h * 3600}

\* C3: no placement of the window, anchored at an event or not, covers a
\* larger sum of durations than the returned total.
C3_TotalIsTrueOptimum ==
    BestDone =>
        \A t \in Instants :
            SumDur(ev_sorted, InWindowAt(op_h, ev_sorted, t)) <= res[4]

\* a window that starts at no event's start time attains the returned total,
\* and the last anchor's window is strictly worse
C3_Witness ==
    /\ BestDone
    /\ Len(ev_sorted) >= 2
    /\ AnchorSum(op_h, ev_sorted, Len(ev_sorted) - 1) < res[4]
    /\ \E t \in Instants :
           /\ \A j \in 1..Len(ev_sorted) : ev_sorted[j][1] # t
           /\ SumDur(ev_sorted, InWindowAt(op_h, ev_sorted, t)) = res[4]

\* C4: 0 <= firstIndex <= lastIndex < n, the start time is that of the
\* event at firstIndex, the range firstIndex..lastIndex is exactly the set
\* of events at index >= firstIndex starting before start + op_h hours, and
\* the total is the sum of the durations over that range.
C4_ResultConsistent ==
    BestDone =>
        /\ 0 <= res[1] /\ res[1] <= res[2] /\ res[2] < Len(ev_sorted)
        /\ res[3] = ev_sorted[res[1] + 1][1]
        /\ res[1]..res[2] = Anchored(op_h, ev_sorted, res[1])
        /\ (res[2] + 1 < Len(ev_sorted)) =>
               ev_sorted[res[2] + 2][1] >= res[3] + op_h * 3600
        /\ res[4] = SumDur(ev_sorted, res[1]..res[2])

\* a window of several events that does not start at the first event
C4_Witness ==
    /\ BestDone
    /\ 0 < res[1] /\ res[1] < res[2]
    /\ res[4] = ev_sorted[res[1] + 1][2] + ev_sorted[res[2] + 1][2]

----------------------------------------------------------------------------
(* Properties of maiden2latlon and f_10_24 (checked under SpecLoc)         *)

\* a locator of 4, 6, 8 or 10 characters: letter pair A-R, digit pair,
\* letter pair A-X, digit pair, letter pair A-X
WellFormed(s) ==
    /\ Len(s) \in {4, 6, 8, 10}
    /\ \A n \in 1..Len(s) :
           CASE n \in {1, 2} -> IsAR(s[n])
             [] n \in {3, 4, 7, 8} -> IsDigit(s[n])
             [] OTHER -> IsAX(s[n])

LocReturned == pc \in {"done", "raised"}

\* C5: an input that is not in its entirety a well-formed locator yields
\* (None, None): no coordinate from part of the string and no exception.
C5_MalformedYieldsNone ==
    (LocReturned /\ ~WellFormed(loctr)) => ret = None2

\* the mathematical floor of n / d, d > 0
FloorDiv(n, d) == CHOOSE q \in (0 - Abs(n) - 1)..(Abs(n) + 1) :
                      q * d <= n /\ n < (q + 1) * d

\* latitude extent of the cell of pair index i: 10, 1, 1/24, 1/240, 1/5760
CellStep(i) == <<<<10, 1>>, <<1, 1>>, <<1, 24>>, <<1, 240>>, <<1, 5760>>>>[i + 1]

\* value of character n of a well-formed locator
CharVal(s, n) == IF IsDigit(s[n]) THEN DigitVal(s[n]) ELSE LetterVal(s[n])

\* south-west corner of the cell of a well-formed locator, first the
\* longitude characters (odd positions), then the latitude characters
RECURSIVE CornerSum(_, _, _)
CornerSum(s, k, off) ==
    IF k < 0 THEN RatInt(0 - 90)
    ELSE RatAdd(CornerSum(s, k - 1, off),
                RatMul(CellStep(k), RatInt(CharVal(s, 2 * k + off))))

LastPair(s) == (Len(s) \div 2) - 1

CornerLon(s) == RatMul(RatInt(2), CornerSum(s, LastPair(s), 1))

CornerLat(s) == CornerSum(s, LastPair(s), 2)

\* C6: for a well-formed locator the result, before rounding, is the centre
\* of the cell: corner latitude + step(k)/2 and corner longitude + step(k),
\* the cell being step(k) high and 2*step(k) wide.
C6_CentreOfCell ==
    (pc = "done" /\ WellFormed(loctr)) =>
        /\ ret.kind = "value"
        /\ lat = RatAdd(CornerLat(loctr),
                        RatMul(CellStep(LastPair(loctr)), <<1, 2>>))
        /\ lon = RatAdd(CornerLon(loctr), CellStep(LastPair(loctr)))

MicroDeg(v) == Rat(v, 1000000)

\* C7: the coordinates of a well-formed locator and of each well-formed
\* proper prefix differ by less than half the width of the prefix's cell,
\* on the latitude axis (step/2) and on the longitude axis (step).
C7_RefinesPrefix ==
    (pc = "done" /\ WellFormed(loctr)) =>
        \A n \in {4, 6, 8} :
            n < Len(loctr) =>
                LET P == SubSeq(loctr, 1, n)
                    r == maiden2latlon(P)
                    w == CellStep(LastPair(P))
                IN /\ r.kind = "value"
                   /\ RatLess(RatAbs(MicroDeg(ret.lat - r.lat)),
                              RatMul(w, <<1, 2>>))
                   /\ RatLess(RatAbs(MicroDeg(ret.lon - r.lon)), w)

\* the step formula of the specification, floor being the mathematical floor
FloorStep(i) ==
    RatMul(RatPow(10, 1 - FloorDiv(i + 1, 2)), RatPow(24, FloorDiv(0 - i, 2)))

\* the step formula with the second exponent rounded toward zero
TruncStep(i) ==
    RatMul(RatPow(10, 1 - FloorDiv(i + 1, 2)), RatPow(24, 0 - FloorDiv(i, 2)))

StepTaken == pc \in {"loop", "done"} /\ i_pair \in 1..5

\* C9 as stated: the step used at pair index i in 0..4 equals
\* 10^(1 - floor((i+1)/2)) * 24^floor(-i/2).
C9_StepIsFloorFormula ==
    StepTaken => step = FloorStep(i_pair - 1)

\* C9 amended: the step used at pair index i in 0..4 equals
\* 10^(1 - floor((i+1)/2)) * 24^(-floor(i/2)), the exponent of 24 being
\* -i/2 rounded toward zero.
C9_StepIsTruncFormula ==
    StepTaken => step = TruncStep(i_pair - 1)

\* the loop has just used the step of the fourth pair (index 3), 1/240
C9_Witness ==
    /\ pc = "loop"
    /\ i_pair = 4
    /\ step = <<1, 240>>

----------------------------------------------------------------------------
(* Properties of the soop forecast loop (checked under SpecPlan)           *)

SortedByStart(l) == \A n \in 1..(Len(l) - 1) : l[n][1] <= l[n + 1][1]

\* the day's events have been sorted and the summary line printed
DayReported == pc = "list" \/ (pc \in {"day", "end"} /\ fc_day > 0)

\* C8: find_best_time is called only with a non-empty list sorted by start
\* time; on a day without events the planner prints "No event", does not
\* call find_best_time and does not read a window result, also when the
\* forecast is a single day and the listing runs; no exception is raised.
C8_OptimizerPrecondition ==
    /\ pc # "raised"
    /\ called =>
           /\ ev_sorted # <<>>
           /\ ev_sorted = tls_sorted
           /\ SortedByStart(ev_sorted)
           /\ Len(res) = 4
    /\ (DayReported /\ tls_sorted # <<>>) => (called /\ out = "window")
    /\ (DayReported /\ tls_sorted = <<>>) =>
           (out = "No event" /\ ~called /\ reads = 0 /\ marked = {})

\* a single-day forecast whose only day had no event, after the listing
C8_Witness ==
    /\ fc_days = 1
    /\ pc = "end"
    /\ tls_sorted = <<>>
    /\ time_list = <<>>
    /\ out = "No event"
    /\ res = NoResult

----------------------------------------------------------------------------
(* Properties of sat_track (checked under SpecTrack)                       *)

\* positions of the set events after position r
SetsAfter(st, r) == {n \in (r + 1)..Len(st) : st[n][2] = 2}

FirstSetAfter(st, r) ==
    CHOOSE n \in SetsAfter(st, r) : \A m \in SetsAfter(st, r) : n <= m

\* whole minutes between the rise at position r and the first set after it
PassMinutes(st, r) == (st[FirstSetAfter(st, r)][1] - st[r][1]) \div 60

\* the complete passes of more than 3 minutes among the first n events,
\* in the order of their rises
RECURSIVE CompletePasses(_, _)
CompletePasses(st, n) ==
    IF n = 0 THEN <<>>
    ELSE IF /\ st[n][2] = 0
            /\ SetsAfter(st, n) # {}
            /\ PassMinutes(st, n) > 3
         THEN Append(CompletePasses(st, n - 1),
                     <<st[n][1], PassMinutes(st, n), SatName>>)
         ELSE CompletePasses(st, n - 1)

====
